---- MODULE Spec2Model ----
(***************************************************************************)
(* Placement management portal: the User, Job and Application stores, the  *)
(* server-side sessions, the role gates and the route handlers that change *)
(* them.  Handlers whose store operations can interleave with other        *)
(* requests (apply, job delete) are split at their awaits; the others are  *)
(* one action each.                                                        *)
(***************************************************************************)
EXTENDS Integers, FiniteSets, Sequences, TLC

\* ---------------------------------------------------------------- bounds
MaxJobs == 2       \* Job documents ever created (ObjectIds are never reused)
MaxApps == 2       \* Application documents ever created
MaxTime == 1       \* clock values 0..MaxTime
MaxResume == 2     \* distinct resume files a student uploads
MaxReqs == 2       \* requests in flight at once
MaxUsers == 2      \* User documents created after the seeded accounts
MaxTokens == 2     \* reset tokens ever generated

\* ------------------------------------------------------------- universe
UserIds == {"a1", "c1", "c2", "s1"}
Sessions == {"x1", "x2"}
Roles == {"student", "company", "admin"}
ReqIds == 1..MaxReqs

Deadlines == 0..MaxTime
StatusInputs == {"", "pending", "shortlisted", "Shortlisted", "rejected", "hired", "archived"}
InterviewInputs ==
    {[interviewDate |-> 0, interviewMode |-> "", interviewLocation |-> "", interviewLink |-> ""],
     [interviewDate |-> 1, interviewMode |-> "", interviewLocation |-> "", interviewLink |-> ""],
     [interviewDate |-> 1, interviewMode |-> "Online", interviewLocation |-> "", interviewLink |-> "url"],
     [interviewDate |-> 1, interviewMode |-> "Phone", interviewLocation |-> "", interviewLink |-> ""],
     [interviewDate |-> -1, interviewMode |-> "", interviewLocation |-> "", interviewLink |-> ""]}

\* bodies of the schedule-interview form: every choice of fields supplied,
\* with values the schema takes and values it refuses
ScheduleInputs ==
    [interviewDate : {0, 1, 2, -1}, interviewMode : {"", "Online", "Offline", "Phone"},
     interviewLocation : {"", "room"}, interviewLink : {"", "url"}]

JobBodies == [companyId : {"c1", "c2"}, status : {"active", "closed"}, deadline : Deadlines]

RoleOf(u) == CASE u = "a1" -> "admin"
               [] u \in {"c1", "c2"} -> "company"
               [] OTHER -> "student"

\* _ids of the User documents created after the seeded ones, in order
NewUserIds == <<"n1", "n2", "n3">>

\* the email of each seeded account, and one address no account has yet
EmailOf(u) == CASE u = "a1" -> "a1@x"
                [] u = "c1" -> "c1@x"
                [] u = "c2" -> "c2@x"
                [] OTHER -> "s1@x"

Emails == {"a1@x", "c1@x", "c2@x", "s1@x", "n1@x"}

\* passwords a caller types; NoPassword: the field is missing from the body
Passwords == {"pw1", "pw2"}
NoPassword == ""

\* process.env.ADMIN_KEY and the adminKey values a login form can send
ADMIN_KEY == "key"
AdminKeys == {"", "guess", "key"}

\* reset tokens: crypto.randomBytes(32) returns a value it never returned
\* before; 0 is a token no mail ever carried
Tokens == 1..MaxTokens

\* the hour a reset token lives, in clock units
ResetTTL == 1

VARIABLES
    users,      \* User collection: existing _id -> [role, status, resume,
                \*   email, password, resetToken, resetTokenExpiry]
    jobs,       \* Job collection: existing _id -> [companyId, status, deadline]
    apps,       \* Application collection: existing _id -> document
    session,    \* session store: session id -> [user, adminOriginal]
    now,        \* Date.now()
    userSeq,    \* User ids handed out so far, beyond the seeded accounts
    tokSeq,     \* reset tokens generated so far
    jobSeq,     \* Job ids handed out so far
    appSeq,     \* Application ids handed out so far
    req,        \* handlers suspended at an await
    deleted,    \* Job ids whose delete request answered with success
    keyed,      \* sessions in which a login with the admin key succeeded
    last        \* the request step just taken and its response

storeVars == <<users, jobs, apps>>
vars == <<users, jobs, apps, session, now, userSeq, tokSeq, jobSeq, appSeq, req, deleted, keyed, last>>

\* ------------------------------------------------------------ documents
NoDoc == [id |-> "none", role |-> "none", resume |-> 0]
NoJob == [companyId |-> "none", status |-> "none", deadline |-> 0]
NoSession == [user |-> NoDoc, adminOriginal |-> NoDoc]
\* the fields of a request body the user handlers read
NoBody == [email |-> "", password |-> "", role |-> ""]

Idle == [pc |-> "idle", sess |-> "none", user |-> NoDoc, profile |-> 0,
         jobId |-> 0, job |-> NoJob, existing |-> FALSE, body |-> NoBody]

\* password values: the text a handler assigns and what bcrypt.hash makes
\* of it
Plain(p) == [kind |-> "plain", of |-> p]

bcryptHash(p) == [kind |-> "bcrypt", of |-> p]

\* crypto.createHash("sha256").update(token).digest("hex")
sha256(t) == [alg |-> "sha256", of |-> t]

\* resetToken: undefined
NoToken == [alg |-> "none", of |-> 0]

\* user.toObject() / .lean(): the copy of a User document a session holds
toObject(u) == [id |-> u, role |-> users[u].role, resume |-> users[u].resume]

Remove(f, S) == [x \in DOMAIN f \ S |-> f[x]]
Put(f, k, v) == [x \in DOMAIN f \cup {k} |-> IF x = k THEN v ELSE f[x]]

\* ------------------------------------------------------------ responses
\* the fields of a request body that a response record keeps
NoInput == [email |-> "", password |-> "", role |-> "", adminKey |-> "", newPassword |-> "",
            status |-> "", interviewDate |-> 0, interviewMode |-> "",
            interviewLocation |-> "", interviewLink |-> ""]

\* what is observed of a request: the route, whether the step is its
\* arrival, the gate's decision, the answer (status 0: none yet), the
\* documents it names, whether it queried the User collection (lookup),
\* what the step started from (from: an Application's status, or where a
\* lost handler stood), fields of the request body and the reset token of
\* the request (-1: none), and the Jobs a page renders (shown)
Resp(s, route, arrive, gate, status, error) ==
    [sess |-> s, route |-> route, arrive |-> arrive, gate |-> gate,
     status |-> status, error |-> error,
     user |-> "none", job |-> 0, app |-> 0, req |-> 0,
     lookup |-> FALSE, from |-> "", body |-> NoInput, token |-> -1,
     shown |-> {}]

NoResp == Resp("none", "none", FALSE, "none", 0, "")

\* ---------------------------------------------------------------- gates
\* an admin gate that only asks for a logged-in user
isAdmin_anyUser(sess) == IF sess.user # NoDoc THEN "next" ELSE "403"

isAdmin(sess) == IF sess.user.role = "admin" THEN "next" ELSE "403"

isCompany(sess) == IF sess.user.role = "company" THEN "next" ELSE "403"

\* a gate that asks the User collection for an active User of the role
isStudent_fresh(sess) ==
    IF /\ sess.user.id \in DOMAIN users
       /\ users[sess.user.id].role = "student"
       /\ users[sess.user.id].status = "active"
    THEN "next" ELSE "403"

\* a gate that only asks for a logged-in user
isStudent_anyUser(sess) == IF sess.user # NoDoc THEN "next" ELSE "403"

isStudent(sess) == IF sess.user.role = "student" THEN "next" ELSE "403"

\* ----------------------------------------------------------------- init
Init ==
    /\ users = [u \in UserIds |->
                   [role |-> RoleOf(u), status |-> "active", resume |-> 0, email |-> EmailOf(u),
                    password |-> bcryptHash("pw1"),
                    resetToken |-> NoToken, resetTokenExpiry |-> 0]]
    /\ jobs = << >>
    /\ apps = << >>
    /\ session = [s \in Sessions |-> NoSession]
    /\ now = 0
    /\ userSeq = 0
    /\ tokSeq = 0
    /\ jobSeq = 0
    /\ appSeq = 0
    /\ req = [r \in ReqIds |-> Idle]
    /\ deleted = {}
    /\ keyed = {}
    /\ last = NoResp

\* ----------------------------------------------------------------- auth
\* a save hook that stores the password as it was assigned
preSave_noHash(doc) == doc

\* userSchema.pre("save"): hash the password when the handler assigned it
preSave(doc) ==
    IF doc.password.kind = "plain"
    THEN [doc EXCEPT !.password = bcryptHash(doc.password.of)]
    ELSE doc

\* a comparison that accepts every password
comparePassword_always(doc, password) == TRUE

\* comparePassword: bcrypt.compare(password, this.password)
comparePassword(doc, password) ==
    doc.password.kind = "bcrypt" /\ doc.password.of = password

\* a key check that accepts every key
adminKeyValid_always(adminKey) == TRUE

\* the admin key of a login body is the configured one
adminKeyValid(adminKey) == adminKey # "" /\ adminKey = ADMIN_KEY

\* a lookup by email alone
findByEmailRole_anyRole(email, role) == {u \in DOMAIN users : users[u].email = email}

\* User.findOne({ email, role }): the _ids it can return
findByEmailRole(email, role) ==
    {u \in DOMAIN users : users[u].email = email /\ users[u].role = role}

\* User.findOne({ email })
findByEmail(email) == {u \in DOMAIN users : users[u].email = email}

\* POST /auth/login.  lookup: User.findOne was called
loginUser(s, email, password, role, adminKey) ==
    LET found == findByEmailRole(email, role)
        body == [NoInput EXCEPT !.email = email, !.password = password,
                                !.role = role, !.adminKey = adminKey]
        R(error) == [Resp(s, "login", TRUE, "none", 200, error) EXCEPT !.lookup = TRUE, !.body = body]
    IN  /\ UNCHANGED <<users, jobs, apps, now, tokSeq, userSeq, jobSeq, appSeq, req, deleted>>
        /\ IF role = "admin" /\ ~adminKeyValid(adminKey)
           THEN /\ last' = [Resp(s, "login", TRUE, "none", 200, "Invalid admin key. Access denied.") EXCEPT !.body = body]
                /\ UNCHANGED <<session, keyed>>
           ELSE IF found = {}
           THEN /\ last' = R("Invalid credentials")
                /\ UNCHANGED <<session, keyed>>
           ELSE IF password = NoPassword
           THEN /\ last' = R("Login failed. Please try again.")
                /\ UNCHANGED <<session, keyed>>
           ELSE \E u \in found :
                  IF ~comparePassword(users[u], password)
                  THEN /\ last' = R("Invalid credentials")
                       /\ UNCHANGED <<session, keyed>>
                  ELSE /\ session' = [session EXCEPT ![s].user = toObject(u)]
                       /\ keyed' = IF role = "admin" THEN keyed \cup {s} ELSE keyed
                       /\ last' = [Resp(s, "login", TRUE, "none", 302, "") EXCEPT !.user = u, !.lookup = TRUE, !.body = body]

\* GET|POST /auth/logout
logoutUser(s) ==
    /\ session' = [session EXCEPT ![s] = NoSession]
    /\ keyed' = keyed \ {s}
    /\ last' = Resp(s, "logout", TRUE, "none", 302, "")
    /\ UNCHANGED <<users, jobs, apps, now, tokSeq, userSeq, jobSeq, appSeq, req, deleted>>

\* ------------------------------------------------------- student routes
\* the lowest request slot not in use
FreeReq == CHOOSE r \in ReqIds : req[r].pc = "idle" /\ \A q \in ReqIds : q < r => req[q].pc # "idle"

HasFreeReq == \E r \in ReqIds : req[r].pc = "idle"

\* new Application({...}) as the apply handler fills it
NewApplication(user, jobId, job) ==
    [studentId |-> user.id, jobId |-> jobId, companyId |-> job.companyId,
     status |-> "pending", resume |-> user.resume,
     interviewDate |-> 0, interviewMode |-> "", interviewLocation |-> "",
     interviewLink |-> ""]

\* a lookup that never finds an earlier Application
findApplication_never(studentId, jobId) == FALSE

\* Application.findOne({ studentId, jobId }) finds a document
findApplication(studentId, jobId) ==
    \E a \in DOMAIN apps : apps[a].studentId = studentId /\ apps[a].jobId = jobId

\* a resume check that lets every student through
hasResume_always(user) == TRUE

\* `user.resume` is truthy
hasResume(user) == user.resume # 0

\* a deadline check that never fires
deadlinePassed_never(job) == FALSE

\* new Date(job.deadline) < new Date()
deadlinePassed(job) == job.deadline < now

\* POST /student/jobs/:jobId/apply, up to the await of Job.findById
applyArrive(s, j) ==
    LET gate == isStudent(session[s])
        user == session[s].user
    IN  /\ UNCHANGED <<users, jobs, apps, session, now, tokSeq, userSeq, jobSeq, appSeq, deleted, keyed>>
        /\ IF gate # "next"
           THEN /\ last' = [Resp(s, "apply", TRUE, gate, 403, "Access denied. Student account required.") EXCEPT !.job = j]
                /\ UNCHANGED req
           ELSE IF user = NoDoc
           THEN /\ last' = [Resp(s, "apply", TRUE, gate, 401, "Please login to apply") EXCEPT !.job = j]
                /\ UNCHANGED req
           ELSE IF ~hasResume(user)
           THEN /\ last' = [Resp(s, "apply", TRUE, gate, 400, "Please upload your resume before applying") EXCEPT !.job = j]
                /\ UNCHANGED req
           ELSE /\ HasFreeReq
                /\ req' = [req EXCEPT ![FreeReq] =
                              [pc |-> "apply_findOne", sess |-> s, user |-> user,
                               profile |-> IF user.id \in DOMAIN users THEN users[user.id].resume ELSE 0,
                               jobId |-> j,
                               job |-> IF j \in DOMAIN jobs THEN jobs[j] ELSE NoJob,
                               existing |-> FALSE, body |-> NoBody]]
                /\ last' = [Resp(s, "apply", TRUE, gate, 0, "") EXCEPT !.job = j, !.req = FreeReq]

\* ... from the result of Job.findById to the await of Application.findOne
applyCheck(r) ==
    LET q == req[r]
        R(status, error) == [Resp(q.sess, "apply", FALSE, "next", status, error) EXCEPT !.job = q.jobId, !.req = r]
    IN  /\ q.pc = "apply_findOne"
        /\ UNCHANGED <<users, jobs, apps, session, now, tokSeq, userSeq, jobSeq, appSeq, deleted, keyed>>
        /\ IF q.job = NoJob \/ q.job.status # "active"
           THEN /\ last' = R(404, "Job not found or no longer active")
                /\ req' = [req EXCEPT ![r] = Idle]
           ELSE IF deadlinePassed(q.job)
           THEN /\ last' = R(400, "Application deadline has passed")
                /\ req' = [req EXCEPT ![r] = Idle]
           ELSE /\ last' = R(0, "")
                /\ req' = [req EXCEPT ![r].pc = "apply_save",
                                      ![r].existing = findApplication(q.user.id, q.jobId)]

\* ... from the result of Application.findOne to the response
applySave(r) ==
    LET q == req[r]
        R(status, error) == [Resp(q.sess, "apply", FALSE, "next", status, error) EXCEPT !.job = q.jobId, !.req = r]
    IN  /\ q.pc = "apply_save"
        /\ UNCHANGED <<users, jobs, session, now, tokSeq, userSeq, jobSeq, deleted, keyed>>
        /\ req' = [req EXCEPT ![r] = Idle]
        /\ IF q.existing
           THEN /\ last' = R(400, "You have already applied to this job")
                /\ UNCHANGED <<apps, appSeq>>
           ELSE IF q.user.resume = 0 \/ q.job.companyId = "none"
           THEN /\ last' = R(500, "Failed to submit application. Please try again.")
                /\ UNCHANGED <<apps, appSeq>>
           ELSE /\ appSeq < MaxApps
                /\ appSeq' = appSeq + 1
                /\ apps' = Put(apps, appSeq + 1, NewApplication(q.user, q.jobId, q.job))
                /\ last' = [R(200, "Application submitted successfully") EXCEPT !.app = appSeq + 1]

\* POST /student/profile/resume.  file: what req.files.resume holds
uploadResume(s, file) ==
    LET gate == isStudent(session[s])
        u == session[s].user.id
    IN  /\ UNCHANGED <<jobs, apps, now, tokSeq, userSeq, jobSeq, appSeq, req, deleted, keyed>>
        /\ IF gate # "next"
           THEN /\ last' = Resp(s, "resume", TRUE, gate, 403, "Access denied. Student account required.")
                /\ UNCHANGED <<users, session>>
           ELSE IF file = "none"
           THEN /\ last' = Resp(s, "resume", TRUE, gate, 400, "No resume file uploaded")
                /\ UNCHANGED <<users, session>>
           ELSE IF file # "pdf"
           THEN /\ last' = Resp(s, "resume", TRUE, gate, 400, "Only PDF files are allowed")
                /\ UNCHANGED <<users, session>>
           ELSE IF u \notin DOMAIN users
           THEN /\ last' = Resp(s, "resume", TRUE, gate, 500, "Failed to upload resume")
                /\ UNCHANGED <<users, session>>
           ELSE /\ users[u].resume < MaxResume
                /\ users' = [users EXCEPT ![u].resume = @ + 1]
                /\ session' = [session EXCEPT ![s].user =
                                  [id |-> u, role |-> users'[u].role, resume |-> users'[u].resume]]
                /\ last' = [Resp(s, "resume", TRUE, gate, 200, "Resume updated successfully") EXCEPT !.user = u]

\* POST /student/profile: none of the fields it writes is modelled, but it
\* reloads session.user from the store
studentProfile(s) ==
    LET gate == isStudent(session[s])
        u == session[s].user.id
    IN  /\ UNCHANGED <<users, jobs, apps, now, tokSeq, userSeq, jobSeq, appSeq, req, deleted, keyed>>
        /\ IF gate # "next"
           THEN /\ last' = Resp(s, "student_profile", TRUE, gate, 403, "Access denied. Student account required.")
                /\ UNCHANGED session
           ELSE IF u \notin DOMAIN users
           THEN /\ last' = Resp(s, "student_profile", TRUE, gate, 500, "Failed to update profile")
                /\ UNCHANGED session
           ELSE /\ session' = [session EXCEPT ![s].user = toObject(u)]
                /\ last' = [Resp(s, "student_profile", TRUE, gate, 200, "Profile updated successfully") EXCEPT !.user = u]

\* POST /company/profile: none of the fields it writes is modelled, but it
\* reloads session.user from the store
companyProfile(s) ==
    LET gate == isCompany(session[s])
        u == session[s].user.id
    IN  /\ UNCHANGED <<users, jobs, apps, now, tokSeq, userSeq, jobSeq, appSeq, req, deleted, keyed>>
        /\ IF gate # "next"
           THEN /\ last' = Resp(s, "company_profile", TRUE, gate, 403, "Access denied. Company account required.")
                /\ UNCHANGED session
           ELSE IF u \notin DOMAIN users
           THEN /\ last' = Resp(s, "company_profile", TRUE, gate, 500, "Failed to update profile")
                /\ UNCHANGED session
           ELSE /\ session' = [session EXCEPT ![s].user = toObject(u)]
                /\ last' = [Resp(s, "company_profile", TRUE, gate, 200, "Profile updated successfully") EXCEPT !.user = u]

\* Job.find({ status: 'active', deadline: { $gt: new Date() } })
openJobs == {j \in DOMAIN jobs : jobs[j].status = "active" /\ jobs[j].deadline > now}

\* .sort({ createdAt: -1 }).limit(n): the n Jobs created last
newest(S, n) == {j \in S : Cardinality({k \in S : k > j}) < n}

\* GET /student/jobs: the page lists what the query returns
studentJobs(s) ==
    LET gate == isStudent(session[s])
    IN  /\ UNCHANGED <<users, jobs, apps, session, now, tokSeq, userSeq, jobSeq, appSeq, req, deleted, keyed>>
        /\ IF gate # "next"
           THEN last' = Resp(s, "student_jobs", TRUE, gate, 403, "Access denied. Student account required.")
           ELSE last' = [Resp(s, "student_jobs", TRUE, gate, 200, "") EXCEPT !.shown = openJobs]

\* GET /student/dashboard: recentJobs
studentDashboard(s) ==
    LET gate == isStudent(session[s])
    IN  /\ UNCHANGED <<users, jobs, apps, session, now, tokSeq, userSeq, jobSeq, appSeq, req, deleted, keyed>>
        /\ IF gate # "next"
           THEN last' = Resp(s, "student_dashboard", TRUE, gate, 403, "Access denied. Student account required.")
           ELSE last' = [Resp(s, "student_dashboard", TRUE, gate, 200, "") EXCEPT !.shown = newest(openJobs, 6)]

\* a details view that asks what the listing asks
detailsVisible_open(j) == j \in openJobs

\* GET /student/jobs/:jobId passes its `!job || job.status !== 'active'`
detailsVisible(j) == j \in DOMAIN jobs /\ jobs[j].status = "active"

\* GET /student/jobs/:jobId
studentJobDetails(s, j) ==
    LET gate == isStudent(session[s])
        R(code, error) == [Resp(s, "student_job", TRUE, gate, code, error) EXCEPT !.job = j]
    IN  /\ UNCHANGED <<users, jobs, apps, session, now, tokSeq, userSeq, jobSeq, appSeq, req, deleted, keyed>>
        /\ IF gate # "next"
           THEN last' = R(403, "Access denied. Student account required.")
           ELSE IF ~detailsVisible(j)
           THEN last' = R(200, "Job not found or no longer active")
           ELSE last' = [R(200, "") EXCEPT !.shown = {j}]

\* ------------------------------------------------------- company routes
Denied403(s, route, gate, error) == Resp(s, route, TRUE, gate, 403, error)

\* POST /company/jobs/post
postJob(s, deadline) ==
    LET gate == isCompany(session[s])
    IN  /\ UNCHANGED <<users, apps, session, now, tokSeq, userSeq, appSeq, req, deleted, keyed>>
        /\ IF gate # "next"
           THEN /\ last' = Denied403(s, "post_job", gate, "Access denied. Company account required.")
                /\ UNCHANGED <<jobs, jobSeq>>
           ELSE /\ jobSeq < MaxJobs
                /\ jobSeq' = jobSeq + 1
                /\ jobs' = Put(jobs, jobSeq + 1,
                               [companyId |-> session[s].user.id, status |-> "active", deadline |-> deadline])
                /\ last' = [Resp(s, "post_job", TRUE, gate, 302, "") EXCEPT !.job = jobSeq + 1]

\* a filter on the _id alone
findOwnJob_anyCompany(j, companyId) == j \in DOMAIN jobs

\* the filter { _id: req.params.jobId, companyId: req.session.user._id }
\* matches a Job
findOwnJob(j, companyId) == j \in DOMAIN jobs /\ jobs[j].companyId = companyId

\* POST /company/jobs/:jobId/edit.  status: req.body.status, "" when absent
companyEditJob(s, j, deadline, status) ==
    LET gate == isCompany(session[s])
    IN  /\ UNCHANGED <<users, apps, session, now, tokSeq, userSeq, jobSeq, appSeq, req, deleted, keyed>>
        /\ IF gate # "next"
           THEN /\ last' = [Denied403(s, "company_edit_job", gate, "Access denied. Company account required.") EXCEPT !.job = j]
                /\ UNCHANGED jobs
           ELSE IF ~findOwnJob(j, session[s].user.id)
           THEN /\ last' = [Resp(s, "company_edit_job", TRUE, gate, 404, "Job not found") EXCEPT !.job = j]
                /\ UNCHANGED jobs
           ELSE /\ jobs' = [jobs EXCEPT ![j].deadline = deadline,
                                        ![j].status = IF status = "" THEN "active" ELSE status]
                /\ last' = [Resp(s, "company_edit_job", TRUE, gate, 302, "") EXCEPT !.job = j]

\* a cascade that deletes nothing
deleteManyByJob_none(J) == apps

\* Application.deleteMany({ jobId })
deleteManyByJob(J) == Remove(apps, {a \in DOMAIN apps : apps[a].jobId \in J})

\* DELETE /company/jobs/:jobId, up to the await of Job.findOne
companyDeleteArrive(s, j) ==
    LET gate == isCompany(session[s])
    IN  /\ UNCHANGED <<users, jobs, apps, session, now, tokSeq, userSeq, jobSeq, appSeq, deleted, keyed>>
        /\ IF gate # "next"
           THEN /\ last' = [Denied403(s, "company_delete_job", gate, "Access denied. Company account required.") EXCEPT !.job = j]
                /\ UNCHANGED req
           ELSE /\ HasFreeReq
                /\ req' = [req EXCEPT ![FreeReq] =
                              [Idle EXCEPT !.pc = "cdel_found", !.sess = s, !.user = session[s].user,
                                           !.jobId = j,
                                           !.job = IF findOwnJob(j, session[s].user.id)
                                                   THEN jobs[j] ELSE NoJob]]
                /\ last' = [Resp(s, "company_delete_job", TRUE, gate, 0, "") EXCEPT !.job = j, !.req = FreeReq]

\* ... from the result of Job.findOne to the await of Application.deleteMany
companyDeleteApps(r) ==
    LET q == req[r]
        R(status, error) == [Resp(q.sess, "company_delete_job", FALSE, "next", status, error) EXCEPT !.job = q.jobId, !.req = r]
    IN  /\ q.pc = "cdel_found"
        /\ UNCHANGED <<users, jobs, session, now, tokSeq, userSeq, jobSeq, appSeq, deleted, keyed>>
        /\ IF q.job = NoJob
           THEN /\ last' = R(404, "Job not found")
                /\ req' = [req EXCEPT ![r] = Idle]
                /\ UNCHANGED apps
           ELSE /\ apps' = deleteManyByJob({q.jobId})
                /\ req' = [req EXCEPT ![r].pc = "cdel_job"]
                /\ last' = R(0, "")

\* ... Job.findByIdAndDelete and the response
companyDeleteJob(r) ==
    LET q == req[r]
    IN  /\ q.pc = "cdel_job"
        /\ jobs' = Remove(jobs, {q.jobId})
        /\ deleted' = deleted \cup {q.jobId}
        /\ req' = [req EXCEPT ![r] = Idle]
        /\ last' = [Resp(q.sess, "company_delete_job", FALSE, "next", 200, "Job deleted successfully") EXCEPT !.job = q.jobId, !.req = r]
        /\ UNCHANGED <<users, apps, session, now, tokSeq, userSeq, jobSeq, appSeq, keyed>>

\* String.prototype.toLowerCase on the status values a form can send
toLowerCase(str) == CASE str = "Pending" -> "pending"
                      [] str = "Shortlisted" -> "shortlisted"
                      [] str = "Rejected" -> "rejected"
                      [] str = "Hired" -> "hired"
                      [] OTHER -> str

\* an enum that lacks the last status
StatusEnum_noHired == {"pending", "shortlisted", "rejected"}

\* enum of applicationSchema.interviewMode
InterviewModeEnum == {"Online", "Offline"}

\* enum of applicationSchema.status
StatusEnum == {"pending", "shortlisted", "rejected", "hired"}

\* the interview fields a request body supplies; 0 and "" are "not supplied"
NoFields == [interviewDate |-> 0, interviewMode |-> "", interviewLocation |-> "", interviewLink |-> ""]

\* new Date(str): the time a date string names, or Invalid Date when it
\* names none (the strings a form can send: a time, or -1 for other text)
InvalidDate == -1

newDate(str) == IF str >= 0 THEN str ELSE InvalidDate

\* assignments that also write the fields the body leaves out
setInterview_all(app, body) ==
    [app EXCEPT !.interviewDate = newDate(body.interviewDate),
                !.interviewMode = body.interviewMode,
                !.interviewLocation = body.interviewLocation,
                !.interviewLink = body.interviewLink]

\* assignments that leave the interview date out
setInterview_noDate(app, body) ==
    [app EXCEPT !.interviewMode = IF body.interviewMode # "" THEN body.interviewMode ELSE @,
                !.interviewLocation = IF body.interviewLocation # "" THEN body.interviewLocation ELSE @,
                !.interviewLink = IF body.interviewLink # "" THEN body.interviewLink ELSE @]

\* the four `if (req.body.x) application.x = req.body.x` assignments
setInterview(app, body) ==
    [app EXCEPT !.interviewDate = IF body.interviewDate # 0 THEN newDate(body.interviewDate) ELSE @,
                !.interviewMode = IF body.interviewMode # "" THEN body.interviewMode ELSE @,
                !.interviewLocation = IF body.interviewLocation # "" THEN body.interviewLocation ELSE @,
                !.interviewLink = IF body.interviewLink # "" THEN body.interviewLink ELSE @]

\* application.save() casts and validates the interview fields
interviewValid(app) ==
    /\ app.interviewDate # InvalidDate
    /\ app.interviewMode \in InterviewModeEnum \cup {""}

\* an ownership test that accepts every company
ownsApplication_anyCompany(sess, a) == TRUE

\* the ownership test of the status and schedule-interview handlers;
\* the caller has checked that the populated Job exists
ownsApplication(sess, a) == jobs[apps[a].jobId].companyId = sess.user.id

\* POST /company/applications/:applicationId/status.
\* status: req.body.status, "" when the body has none
updateStatus(s, a, status, body) ==
    LET gate == isCompany(session[s])
        R(code, error) == [Resp(s, "update_status", TRUE, gate, code, error)
                           EXCEPT !.app = a, !.body.status = status,
                                  !.body.interviewDate = body.interviewDate,
                                  !.body.interviewMode = body.interviewMode,
                                  !.body.interviewLocation = body.interviewLocation,
                                  !.body.interviewLink = body.interviewLink,
                                  !.from = IF a \in DOMAIN apps THEN apps[a].status ELSE ""]
        upd == [apps[a] EXCEPT !.status = toLowerCase(status)]
        shortlisting == status \in {"shortlisted", "Shortlisted"}
    IN  /\ UNCHANGED <<users, jobs, session, now, tokSeq, userSeq, jobSeq, appSeq, req, deleted, keyed>>
        /\ IF gate # "next"
           THEN /\ last' = R(403, "Access denied. Company account required.")
                /\ UNCHANGED apps
           ELSE IF a \notin DOMAIN apps
           THEN /\ last' = R(404, "Application not found")
                /\ UNCHANGED apps
           ELSE IF apps[a].jobId \notin DOMAIN jobs
           THEN /\ last' = R(500, "Failed to update status")
                /\ UNCHANGED apps
           ELSE IF ~ownsApplication(session[s], a)
           THEN /\ last' = R(404, "Application not found")
                /\ UNCHANGED apps
           ELSE IF \/ status = ""
                   \/ toLowerCase(status) \notin StatusEnum
                   \/ shortlisting /\ ~interviewValid(setInterview(upd, body))
           THEN /\ last' = R(500, "Failed to update status")
                /\ UNCHANGED apps
           ELSE /\ apps' = [apps EXCEPT ![a] =
                               IF shortlisting THEN setInterview(upd, body) ELSE upd]
                /\ last' = R(200, "Application status updated successfully")

\* POST /company/applications/:applicationId/schedule-interview
scheduleInterview(s, a, body) ==
    LET gate == isCompany(session[s])
        R(code, error) == [Resp(s, "schedule_interview", TRUE, gate, code, error)
                           EXCEPT !.app = a,
                                  !.body.interviewDate = body.interviewDate,
                                  !.body.interviewMode = body.interviewMode,
                                  !.body.interviewLocation = body.interviewLocation,
                                  !.body.interviewLink = body.interviewLink,
                                  !.from = IF a \in DOMAIN apps THEN apps[a].status ELSE ""]
    IN  /\ UNCHANGED <<users, jobs, session, now, tokSeq, userSeq, jobSeq, appSeq, req, deleted, keyed>>
        /\ IF gate # "next"
           THEN /\ last' = R(403, "Access denied. Company account required.")
                /\ UNCHANGED apps
           ELSE IF a \notin DOMAIN apps
           THEN /\ last' = R(404, "Application not found")
                /\ UNCHANGED apps
           ELSE IF apps[a].jobId \notin DOMAIN jobs
           THEN /\ last' = R(500, "Failed to schedule interview")
                /\ UNCHANGED apps
           ELSE IF ~ownsApplication(session[s], a)
           THEN /\ last' = R(404, "Application not found")
                /\ UNCHANGED apps
           ELSE IF ~interviewValid(setInterview(apps[a], body))
           THEN /\ last' = R(500, "Failed to schedule interview")
                /\ UNCHANGED apps
           ELSE /\ apps' = [apps EXCEPT ![a] = setInterview(apps[a], body)]
                /\ last' = R(200, "Interview scheduled successfully")

\* --------------------------------------------------------- admin routes
\* DELETE /admin/users/:id.  qrole: req.query.role, "" when absent
deleteUser(s, u, qrole) ==
    LET gate == isAdmin(session[s])
        R(code, error) == [Resp(s, "delete_user", TRUE, gate, code, error) EXCEPT !.user = u]
        jobIds == {j \in DOMAIN jobs : jobs[j].companyId = u}
    IN  /\ UNCHANGED <<session, now, tokSeq, userSeq, jobSeq, appSeq, req, deleted, keyed>>
        /\ IF gate # "next"
           THEN /\ last' = R(403, "Access denied. Admin privileges required.")
                /\ UNCHANGED <<users, jobs, apps>>
           ELSE IF u = session[s].user.id
           THEN /\ last' = R(400, "You cannot delete your own account")
                /\ UNCHANGED <<users, jobs, apps>>
           ELSE /\ apps' = IF qrole = "student"
                           THEN Remove(apps, {a \in DOMAIN apps : apps[a].studentId = u})
                           ELSE IF qrole = "company"
                           THEN deleteManyByJob(jobIds)
                           ELSE apps
                /\ jobs' = IF qrole = "company" THEN Remove(jobs, jobIds) ELSE jobs
                /\ users' = Remove(users, {u})
                /\ last' = R(200, "User deleted successfully")

\* DELETE /admin/jobs/:id, up to the await of Application.deleteMany
adminDeleteApps(s, j) ==
    LET gate == isAdmin(session[s])
    IN  /\ UNCHANGED <<users, jobs, session, now, tokSeq, userSeq, jobSeq, appSeq, deleted, keyed>>
        /\ IF gate # "next"
           THEN /\ last' = [Denied403(s, "admin_delete_job", gate, "Access denied. Admin privileges required.") EXCEPT !.job = j]
                /\ UNCHANGED <<apps, req>>
           ELSE /\ HasFreeReq
                /\ apps' = deleteManyByJob({j})
                /\ req' = [req EXCEPT ![FreeReq] =
                              [Idle EXCEPT !.pc = "adel_job", !.sess = s, !.user = session[s].user, !.jobId = j]]
                /\ last' = [Resp(s, "admin_delete_job", TRUE, gate, 0, "") EXCEPT !.job = j, !.req = FreeReq]

\* ... Job.findByIdAndDelete and the response
adminDeleteJob(r) ==
    LET q == req[r]
    IN  /\ q.pc = "adel_job"
        /\ jobs' = Remove(jobs, {q.jobId})
        /\ deleted' = deleted \cup {q.jobId}
        /\ req' = [req EXCEPT ![r] = Idle]
        /\ last' = [Resp(q.sess, "admin_delete_job", FALSE, "next", 200, "Job deleted successfully") EXCEPT !.job = q.jobId, !.req = r]
        /\ UNCHANGED <<users, apps, session, now, tokSeq, userSeq, jobSeq, appSeq, keyed>>

\* POST /admin/jobs/:id/edit: Job.findByIdAndUpdate(id, req.body).
\* body: the Job fields the form sends
adminEditJob(s, j, body) ==
    LET gate == isAdmin(session[s])
    IN  /\ UNCHANGED <<users, apps, session, now, tokSeq, userSeq, jobSeq, appSeq, req, deleted, keyed>>
        /\ IF gate # "next"
           THEN /\ last' = [Denied403(s, "admin_edit_job", gate, "Access denied. Admin privileges required.") EXCEPT !.job = j]
                /\ UNCHANGED jobs
           ELSE /\ jobs' = IF j \in DOMAIN jobs THEN [jobs EXCEPT ![j] = body] ELSE jobs
                /\ last' = [Resp(s, "admin_edit_job", TRUE, gate, 302, "") EXCEPT !.job = j]

\* a restore slot that keeps the identity saved first
adminOriginalOf_keepFirst(sess) ==
    IF sess.adminOriginal # NoDoc THEN sess.adminOriginal ELSE sess.user

\* req.session.adminOriginal = req.session.user
adminOriginalOf(sess) == sess.user

\* GET /admin/users/impersonate/:id
impersonate(s, u) ==
    LET gate == isAdmin(session[s])
        R(code, error) == [Resp(s, "impersonate", TRUE, gate, code, error) EXCEPT !.user = u]
    IN  /\ UNCHANGED <<users, jobs, apps, now, tokSeq, userSeq, jobSeq, appSeq, req, deleted, keyed>>
        /\ IF gate # "next"
           THEN /\ last' = R(403, "Access denied. Admin privileges required.")
                /\ UNCHANGED session
           ELSE IF u \notin DOMAIN users
           THEN /\ last' = R(200, "User not found")
                /\ UNCHANGED session
           ELSE /\ session' = [session EXCEPT ![s] = [adminOriginal |-> adminOriginalOf(session[s]), user |-> toObject(u)]]
                /\ last' = R(302, "")

\* GET /admin/impersonate/stop
stopImpersonate(s) ==
    LET gate == isAdmin(session[s])
    IN  /\ UNCHANGED <<users, jobs, apps, now, tokSeq, userSeq, jobSeq, appSeq, req, deleted, keyed>>
        /\ IF gate # "next"
           THEN /\ last' = Denied403(s, "impersonate_stop", gate, "Access denied. Admin privileges required.")
                /\ UNCHANGED session
           ELSE /\ session' = IF session[s].adminOriginal # NoDoc
                              THEN [session EXCEPT ![s] = [user |-> session[s].adminOriginal, adminOriginal |-> NoDoc]]
                              ELSE session
                /\ last' = Resp(s, "impersonate_stop", TRUE, gate, 302, "")

\* ------------------------------------------------------ identity routes
\* a collection without the unique index
uniqueEmail_noIndex(email, self) == TRUE

\* the unique index on User.email lets a document with this email be
\* written as document `self`
uniqueEmail(email, self) == \A u \in DOMAIN users \ {self} : users[u].email # email

\* new User({...}) as register and add-user fill it; role: the schema
\* default when the body has none
NewUser(body) ==
    [role |-> IF body.role = "" THEN "student" ELSE body.role, status |-> "active", resume |-> 0,
     email |-> body.email, password |-> Plain(body.password),
     resetToken |-> NoToken, resetTokenExpiry |-> 0]

\* POST /auth/register, up to the await of User.findOne.
\* body: email, password and role as sent, "" when missing
registerUser(s, body) ==
    /\ UNCHANGED <<users, jobs, apps, session, now, tokSeq, userSeq, jobSeq, appSeq, deleted, keyed>>
    /\ IF body.email = "" \/ body.password = "" \/ body.role = ""
       THEN /\ last' = Resp(s, "register", TRUE, "none", 200, "All fields are required")
            /\ UNCHANGED req
       ELSE /\ HasFreeReq
            /\ req' = [req EXCEPT ![FreeReq] =
                          [Idle EXCEPT !.pc = "reg_save", !.sess = s, !.body = body,
                                       !.existing = findByEmail(body.email) # {}]]
            /\ last' = [Resp(s, "register", TRUE, "none", 0, "") EXCEPT !.req = FreeReq]

\* ... from the result of User.findOne through user.save() to the response
registerSave(r) ==
    LET q == req[r]
        R(status, error) == [Resp(q.sess, "register", FALSE, "none", status, error) EXCEPT !.req = r]
        id == NewUserIds[userSeq + 1]
    IN  /\ q.pc = "reg_save"
        /\ UNCHANGED <<jobs, apps, session, now, tokSeq, jobSeq, appSeq, deleted, keyed>>
        /\ req' = [req EXCEPT ![r] = Idle]
        /\ IF q.existing
           THEN /\ last' = R(200, "Email already registered")
                /\ UNCHANGED <<users, userSeq>>
           ELSE IF q.body.role \notin Roles \/ ~uniqueEmail(q.body.email, "none")
           THEN /\ last' = R(200, "Registration failed")
                /\ UNCHANGED <<users, userSeq>>
           ELSE /\ userSeq < MaxUsers
                /\ userSeq' = userSeq + 1
                /\ users' = Put(users, id, preSave(NewUser(q.body)))
                /\ last' = [R(302, "") EXCEPT !.user = id]

\* POST /admin/users/add, up to the await of User.findOne.  The form sends
\* email and password; role may be left out
addUser(s, body) ==
    LET gate == isAdmin(session[s])
    IN  /\ UNCHANGED <<users, jobs, apps, session, now, tokSeq, userSeq, jobSeq, appSeq, deleted, keyed>>
        /\ IF gate # "next"
           THEN /\ last' = Denied403(s, "add_user", gate, "Access denied. Admin privileges required.")
                /\ UNCHANGED req
           ELSE /\ HasFreeReq
                /\ req' = [req EXCEPT ![FreeReq] =
                              [Idle EXCEPT !.pc = "add_save", !.sess = s, !.user = session[s].user,
                                           !.body = body,
                                           !.existing = findByEmail(body.email) # {}]]
                /\ last' = [Resp(s, "add_user", TRUE, gate, 0, "") EXCEPT !.req = FreeReq]

\* ... from the result of User.findOne through newUser.save() to the response
addUserSave(r) ==
    LET q == req[r]
        R(status, error) == [Resp(q.sess, "add_user", FALSE, "next", status, error) EXCEPT !.req = r]
        id == NewUserIds[userSeq + 1]
    IN  /\ q.pc = "add_save"
        /\ UNCHANGED <<jobs, apps, session, now, tokSeq, jobSeq, appSeq, deleted, keyed>>
        /\ req' = [req EXCEPT ![r] = Idle]
        /\ IF q.existing
           THEN /\ last' = R(200, "User with this email already exists")
                /\ UNCHANGED <<users, userSeq>>
           ELSE IF ~uniqueEmail(q.body.email, "none")
           THEN /\ last' = R(200, "Failed to create user")
                /\ UNCHANGED <<users, userSeq>>
           ELSE /\ userSeq < MaxUsers
                /\ userSeq' = userSeq + 1
                /\ users' = Put(users, id, preSave(NewUser(q.body)))
                /\ last' = [R(302, "") EXCEPT !.user = id]

\* POST /admin/users/:id/edit: User.findByIdAndUpdate(id, updates).
\* body: the email, role and status of the form; a status of "" is a
\* field the form leaves out, which the update does not write
editUser(s, u, body) ==
    LET gate == isAdmin(session[s])
        R(code, error) == [Resp(s, "edit_user", TRUE, gate, code, error) EXCEPT !.user = u]
    IN  /\ UNCHANGED <<jobs, apps, session, now, tokSeq, userSeq, jobSeq, appSeq, req, deleted, keyed>>
        /\ IF gate # "next"
           THEN /\ last' = R(403, "Access denied. Admin privileges required.")
                /\ UNCHANGED users
           ELSE IF u \notin DOMAIN users
           THEN /\ last' = R(302, "")
                /\ UNCHANGED users
           ELSE IF ~uniqueEmail(body.email, u)
           THEN /\ last' = R(302, "Failed to update")
                /\ UNCHANGED users
           ELSE /\ users' = [users EXCEPT ![u].email = body.email, ![u].role = body.role,
                                          ![u].status = IF body.status = "" THEN @ ELSE body.status]
                /\ last' = R(302, "")

\* POST /admin/users/toggle-status/:id
toggleStatus(s, u) ==
    LET gate == isAdmin(session[s])
        R(code, error) == [Resp(s, "toggle_status", TRUE, gate, code, error) EXCEPT !.user = u]
    IN  /\ UNCHANGED <<jobs, apps, session, now, tokSeq, userSeq, jobSeq, appSeq, req, deleted, keyed>>
        /\ IF gate # "next"
           THEN /\ last' = R(403, "Access denied. Admin privileges required.")
                /\ UNCHANGED users
           ELSE IF u \notin DOMAIN users
           THEN /\ last' = R(404, "User not found")
                /\ UNCHANGED users
           ELSE /\ users' = [users EXCEPT ![u] =
                                 preSave([@ EXCEPT !.status = IF @ = "active" THEN "inactive" ELSE "active"])]
                /\ last' = R(302, "")

\* a request that leaves a token already stored in place
setResetToken_keepFirst(doc, hash, expiry) ==
    IF doc.resetToken # NoToken THEN doc
    ELSE [doc EXCEPT !.resetToken = hash, !.resetTokenExpiry = expiry]

\* user.resetToken = resetTokenHash; user.resetTokenExpiry = resetTokenExpiry
setResetToken(doc, hash, expiry) ==
    [doc EXCEPT !.resetToken = hash, !.resetTokenExpiry = expiry]

\* POST /auth/forgot-password.  mailOk: transporter.sendMail succeeds; the
\* document is saved before the mail is sent
sendResetEmail(s, email, mailOk) ==
    LET found == findByEmail(email)
        resetToken == tokSeq + 1
    IN  /\ UNCHANGED <<jobs, apps, session, now, userSeq, jobSeq, appSeq, req, deleted, keyed>>
        /\ IF found = {}
           THEN /\ last' = [Resp(s, "forgot_password", TRUE, "none", 200, "Email not found") EXCEPT !.lookup = TRUE]
                /\ UNCHANGED <<users, tokSeq>>
           ELSE \E u \in found :
                  /\ tokSeq < MaxTokens
                  /\ tokSeq' = resetToken
                  /\ users' = [users EXCEPT ![u] =
                                  preSave(setResetToken(@, sha256(resetToken), now + ResetTTL))]
                  /\ last' = [Resp(s, "forgot_password", TRUE, "none", 200,
                                   IF mailOk THEN "" ELSE "Error sending reset email. Please try again.")
                              EXCEPT !.user = u, !.lookup = TRUE, !.token = resetToken]

\* a token check that ignores the expiry
tokenValid_noExpiry(doc, token) == doc.resetToken = sha256(token)

\* the filter { resetToken: tokenHash, resetTokenExpiry: { $gt: Date.now() } }
tokenValid(doc, token) ==
    doc.resetToken = sha256(token) /\ doc.resetTokenExpiry > now

\* POST /auth/reset-password/:token
resetPassword(s, token, password, confirmPassword) ==
    LET found == {u \in DOMAIN users : tokenValid(users[u], token)}
        R(error) == [Resp(s, "reset_password", TRUE, "none", 200, error)
                     EXCEPT !.token = token, !.body.newPassword = password]
    IN  /\ UNCHANGED <<jobs, apps, session, now, tokSeq, userSeq, jobSeq, appSeq, req, deleted, keyed>>
        /\ IF password = "" \/ confirmPassword = ""
           THEN /\ last' = R("All fields required")
                /\ UNCHANGED users
           ELSE IF password # confirmPassword
           THEN /\ last' = R("Passwords do not match")
                /\ UNCHANGED users
           ELSE IF found = {}
           THEN /\ last' = [R("Invalid or expired reset link") EXCEPT !.lookup = TRUE]
                /\ UNCHANGED users
           ELSE \E u \in found :
                  /\ users' = [users EXCEPT ![u] =
                                  preSave([@ EXCEPT !.password = Plain(password),
                                                    !.resetToken = NoToken,
                                                    !.resetTokenExpiry = 0])]
                  /\ last' = [R("") EXCEPT !.user = u, !.lookup = TRUE]

\* POST /auth/change-password
changePassword(s, currentPassword, newPassword, confirmPassword) ==
    LET u == session[s].user.id
        R(code, error) == [Resp(s, "change_password", TRUE, "none", code, error)
                           EXCEPT !.body.password = currentPassword,
                                  !.body.newPassword = newPassword]
    IN  /\ UNCHANGED <<jobs, apps, session, now, tokSeq, userSeq, jobSeq, appSeq, req, deleted, keyed>>
        /\ IF session[s].user = NoDoc
           THEN /\ last' = R(401, "Not logged in")
                /\ UNCHANGED users
           ELSE IF currentPassword = "" \/ newPassword = "" \/ confirmPassword = ""
           THEN /\ last' = R(400, "All fields are required")
                /\ UNCHANGED users
           ELSE IF newPassword # confirmPassword
           THEN /\ last' = R(400, "New passwords do not match")
                /\ UNCHANGED users
           ELSE IF u \notin DOMAIN users
           THEN /\ last' = [R(404, "User not found") EXCEPT !.lookup = TRUE]
                /\ UNCHANGED users
           ELSE IF ~comparePassword(users[u], currentPassword)
           THEN /\ last' = [R(400, "Current password is incorrect") EXCEPT !.user = u, !.lookup = TRUE]
                /\ UNCHANGED users
           ELSE /\ users' = [users EXCEPT ![u] = preSave([@ EXCEPT !.password = Plain(newPassword)])]
                /\ last' = [R(200, "") EXCEPT !.user = u, !.lookup = TRUE]

\* the server process dies: every handler suspended at an await is lost;
\* the stores and the sessions (kept in MongoDB) stay as they are.  The
\* record of the step names one of the handlers lost and where it stood
crash ==
    /\ \E r \in ReqIds :
          /\ req[r].pc # "idle"
          /\ last' = [NoResp EXCEPT !.route = "crash", !.req = r,
                                    !.job = req[r].jobId, !.from = req[r].pc]
    /\ req' = [r \in ReqIds |-> Idle]
    /\ UNCHANGED <<users, jobs, apps, session, now, tokSeq, userSeq, jobSeq, appSeq, deleted, keyed>>

\* the clock advances
Tick ==
    /\ now < MaxTime
    /\ now' = now + 1
    /\ last' = NoResp
    /\ UNCHANGED <<users, jobs, apps, session, userSeq, tokSeq, jobSeq, appSeq, req, deleted, keyed>>

\* no handler is suspended at an await
Quiet == \A r \in ReqIds : req[r].pc = "idle"

\* every route, one request at a time from one browser session
Next ==
    \/ \E u \in {"a1", "c1", "s1"}, role \in Roles, k \in {"guess", ADMIN_KEY}, p \in Passwords :
          Quiet /\ loginUser("x1", EmailOf(u), p, role, k)
    \/ Quiet /\ logoutUser("x1")
    \/ \E j \in 1..jobSeq : Quiet /\ applyArrive("x1", j)
    \/ \E r \in ReqIds : applyCheck(r)
    \/ \E r \in ReqIds : applySave(r)
    \/ \E file \in {"none", "txt", "pdf"} : Quiet /\ session["x1"].user.resume = 0 /\ uploadResume("x1", file)
    \/ Quiet /\ studentProfile("x1")
    \/ Quiet /\ jobs = << >> /\ postJob("x1", MaxTime)
    \/ \E j \in 1..jobSeq : Quiet /\ companyEditJob("x1", j, MaxTime, "closed")
    \/ \E j \in 1..jobSeq : Quiet /\ companyDeleteArrive("x1", j)
    \/ \E r \in ReqIds : companyDeleteApps(r)
    \/ \E r \in ReqIds : companyDeleteJob(r)
    \/ \E a \in 1..appSeq : Quiet /\ updateStatus("x1", a, "hired", NoFields)
    \/ \E u \in {"a1", "c1", "s1"}, q \in {"", "student", "company"} : Quiet /\ deleteUser("x1", u, q)
    \/ \E j \in 1..jobSeq : Quiet /\ adminDeleteApps("x1", j)
    \/ \E r \in ReqIds : adminDeleteJob(r)
    \/ \E j \in 1..jobSeq : Quiet /\ adminEditJob("x1", j, [companyId |-> "c1", status |-> "active", deadline |-> MaxTime])
    \/ \E u \in {"a1", "c1", "s1"} : Quiet /\ impersonate("x1", u)
    \/ Quiet /\ stopImpersonate("x1")

Spec == Init /\ [][Next]_vars

\* the student's browser (x1) and the browser of a company or an admin
\* (x2) with requests that overlap: handlers interleave at their awaits
NextRace ==
    \/ loginUser("x1", EmailOf("s1"), "pw1", "student", "")
    \/ \E u \in {"c1", "a1"} : loginUser("x2", EmailOf(u), "pw1", RoleOf(u), ADMIN_KEY)
    \/ session["x1"].user.resume = 0 /\ uploadResume("x1", "pdf")
    \/ \E j \in 1..jobSeq : applyArrive("x1", j)
    \/ \E r \in ReqIds : applyCheck(r)
    \/ \E r \in ReqIds : applySave(r)
    \/ jobSeq = 0 /\ postJob("x2", MaxTime)
    \/ \E j \in 1..jobSeq : companyDeleteArrive("x2", j)
    \/ \E r \in ReqIds : companyDeleteApps(r)
    \/ \E r \in ReqIds : companyDeleteJob(r)
    \/ \E j \in 1..jobSeq : adminDeleteApps("x2", j)
    \/ \E r \in ReqIds : adminDeleteJob(r)

SpecRace == Init /\ [][NextRace]_vars

\* two browsers of the student, one of them also used by the company; one
\* request at a time, while the clock advances and resumes are replaced
NextApply ==
    \/ Quiet /\ loginUser("x1", EmailOf("s1"), "pw1", "student", "")
    \/ \E u \in {"s1", "c1"} : Quiet /\ loginUser("x2", EmailOf(u), "pw1", RoleOf(u), "")
    \/ \E s \in Sessions : Quiet /\ uploadResume(s, "pdf")
    \/ \E s \in Sessions, j \in 1..jobSeq : Quiet /\ applyArrive(s, j)
    \/ \E r \in ReqIds : applyCheck(r)
    \/ \E r \in ReqIds : applySave(r)
    \/ \E d \in Deadlines : Quiet /\ jobs = << >> /\ postJob("x2", d)
    \/ \E j \in 1..jobSeq, d \in Deadlines, st \in {"", "closed"} : Quiet /\ companyEditJob("x2", j, d, st)
    \/ Tick

SpecApply == Init /\ [][NextApply]_vars

\* one browser used in turn by the student, two companies and the admin;
\* the companies set the status of the student's Application
NextStatus ==
    \/ \E u \in UserIds : Quiet /\ loginUser("x1", EmailOf(u), "pw1", RoleOf(u), ADMIN_KEY)
    \/ Quiet /\ session["x1"].user.resume = 0 /\ uploadResume("x1", "pdf")
    \/ \E j \in 1..jobSeq : Quiet /\ applyArrive("x1", j)
    \/ \E r \in ReqIds : applyCheck(r)
    \/ \E r \in ReqIds : applySave(r)
    \/ Quiet /\ jobs = << >> /\ postJob("x1", MaxTime)
    \/ \E a \in 1..appSeq, st \in StatusInputs : Quiet /\ updateStatus("x1", a, st, NoFields)
    \/ \E a \in 1..appSeq, st \in {"shortlisted", "Shortlisted"}, b \in InterviewInputs :
          Quiet /\ updateStatus("x1", a, st, b)
    \/ \E j \in 1..jobSeq, c \in {"c1", "c2"} :
          Quiet /\ adminEditJob("x1", j, [companyId |-> c, status |-> "active", deadline |-> MaxTime])
    \/ \E j \in 1..jobSeq : Quiet /\ adminDeleteApps("x1", j)
    \/ \E r \in ReqIds : adminDeleteJob(r)

SpecStatus == Init /\ [][NextStatus]_vars

\* logins with every combination of account, password, role and admin
\* key, before and after the admin adds an account and moves an email
NextLogin ==
    \/ \E email \in {"a1@x", "s1@x", "n1@x"}, p \in Passwords \cup {NoPassword},
          role \in Roles, k \in AdminKeys :
          Quiet /\ loginUser("x1", email, p, role, k)
    \/ Quiet /\ logoutUser("x1")
    \/ \E role \in {"admin", "company"} :
          Quiet /\ userSeq = 0 /\ addUser("x1", [email |-> "n1@x", password |-> "pw2", role |-> role])
    \/ \E r \in ReqIds : addUserSave(r)
    \/ \E email \in {"s1@x", "n1@x"}, role \in {"student", "company"} :
          Quiet /\ editUser("x1", "s1", [email |-> email, role |-> role, status |-> ""])

SpecLogin == Init /\ [][NextLogin]_vars

\* the routes that write a password: registration, add-user, reset and
\* change, with the profile and edit-user routes that write other fields;
\* a student's browser (x1) and the admin's (x2), one request at a time
\* while the clock advances
NextPassword ==
    \/ \E p \in Passwords : Quiet /\ loginUser("x1", "s1@x", p, "student", "")
    \/ Quiet /\ loginUser("x2", "a1@x", "pw1", "admin", ADMIN_KEY)
    \/ \E email \in {"s1@x", "n1@x", ""} :
          Quiet /\ userSeq = 0 /\ registerUser("x1", [email |-> email, password |-> "pw2", role |-> "student"])
    \/ \E r \in ReqIds : registerSave(r)
    \/ Quiet /\ userSeq = 0 /\ addUser("x2", [email |-> "n1@x", password |-> "pw2", role |-> ""])
    \/ \E r \in ReqIds : addUserSave(r)
    \/ Quiet /\ editUser("x2", "s1", [email |-> "n1@x", role |-> "student", status |-> ""])
    \/ \E email \in {"s1@x", "c2@x"} :
          Quiet /\ sendResetEmail("x1", email, email = "s1@x")
    \/ \E t \in Tokens \cup {0} : Quiet /\ resetPassword("x1", t, "pw2", "pw2")
    \/ \E c \in {"pw1", ""} : Quiet /\ resetPassword("x1", 1, "pw2", c)
    \/ \E c \in Passwords : Quiet /\ changePassword("x1", c, "pw2", "pw2")
    \/ Quiet /\ changePassword("x1", "pw1", "pw2", "pw1")
    \/ Quiet /\ studentProfile("x1")
    \/ Tick

SpecPassword == Init /\ [][NextPassword]_vars

\* a visitor (x1) registers while the admin (x2) adds and edits Users;
\* the requests overlap
NextUsers ==
    \/ loginUser("x2", EmailOf("a1"), "pw1", "admin", ADMIN_KEY)
    \/ \E email \in {"s1@x", "n1@x"}, role \in {"student", "company"} :
          registerUser("x1", [email |-> email, password |-> "pw1", role |-> role])
    \/ \E r \in ReqIds : registerSave(r)
    \/ \E email \in {"s1@x", "n1@x"} :
          addUser("x2", [email |-> email, password |-> "pw1", role |-> "student"])
    \/ \E r \in ReqIds : addUserSave(r)
    \/ \E u \in {"s1", "c1", "n1"}, email \in {"s1@x", "n1@x"} :
          editUser("x2", u, [email |-> email, role |-> IF u = "c1" THEN "company" ELSE "student", status |-> ""])

SpecUsers == Init /\ [][NextUsers]_vars

\* the admin impersonates Users, among them an admin account added
\* through the dashboard
NextImpersonate ==
    \/ \E u \in {"a1", "s1"}, s \in Sessions :
          Quiet /\ loginUser(s, EmailOf(u), "pw1", RoleOf(u), ADMIN_KEY)
    \/ \E s \in Sessions : Quiet /\ logoutUser(s)
    \/ Quiet /\ userSeq = 0 /\ addUser("x1", [email |-> "n1@x", password |-> "pw1", role |-> "admin"])
    \/ \E r \in ReqIds : addUserSave(r)
    \/ \E u \in {"a1", "s1", "c1", "n1", "n2"} : Quiet /\ impersonate("x1", u)
    \/ Quiet /\ stopImpersonate("x1")
    \/ \E s \in Sessions : Quiet /\ studentProfile(s)

SpecImpersonate == Init /\ [][NextImpersonate]_vars

\* Jobs are deleted by their company and by the admin, one request at a
\* time, and the server can die while a handler is suspended
NextCrash ==
    \/ \E u \in {"s1", "c1", "a1"} : Quiet /\ loginUser("x1", EmailOf(u), "pw1", RoleOf(u), ADMIN_KEY)
    \/ Quiet /\ session["x1"].user.resume = 0 /\ uploadResume("x1", "pdf")
    \/ Quiet /\ postJob("x1", MaxTime)
    \/ \E j \in 1..jobSeq : Quiet /\ applyArrive("x1", j)
    \/ \E r \in ReqIds : applyCheck(r)
    \/ \E r \in ReqIds : applySave(r)
    \/ \E j \in 1..jobSeq : Quiet /\ companyDeleteArrive("x1", j)
    \/ \E r \in ReqIds : companyDeleteApps(r)
    \/ \E r \in ReqIds : companyDeleteJob(r)
    \/ \E j \in 1..jobSeq : Quiet /\ adminDeleteApps("x1", j)
    \/ \E r \in ReqIds : adminDeleteJob(r)
    \/ crash

SpecCrash == Init /\ [][NextCrash]_vars

\* one browser used in turn by the student and two companies; the
\* companies shortlist the student's Application and schedule interviews
NextInterview ==
    \/ \E u \in {"s1", "c1", "c2"} : Quiet /\ loginUser("x1", EmailOf(u), "pw1", RoleOf(u), "")
    \/ Quiet /\ session["x1"].user.resume = 0 /\ uploadResume("x1", "pdf")
    \/ \E j \in 1..jobSeq : Quiet /\ applyArrive("x1", j)
    \/ \E r \in ReqIds : applyCheck(r)
    \/ \E r \in ReqIds : applySave(r)
    \/ Quiet /\ jobs = << >> /\ postJob("x1", MaxTime)
    \/ \E a \in 1..appSeq, st \in {"shortlisted", "rejected"}, b \in InterviewInputs :
          Quiet /\ updateStatus("x1", a, st, b)
    \/ \E a \in 1..appSeq, b \in ScheduleInputs : Quiet /\ scheduleInterview("x1", a, b)

SpecInterview == Init /\ [][NextInterview]_vars

\* a student browses Jobs (x1) that a company posts, edits and closes
\* (x2), one request at a time while the clock advances
NextView ==
    \/ Quiet /\ loginUser("x1", EmailOf("s1"), "pw1", "student", "")
    \/ Quiet /\ loginUser("x2", EmailOf("c1"), "pw1", "company", "")
    \/ Quiet /\ logoutUser("x1")
    \/ \E d \in Deadlines : Quiet /\ postJob("x2", d)
    \/ \E j \in 1..jobSeq, d \in Deadlines, st \in {"", "closed"} : Quiet /\ companyEditJob("x2", j, d, st)
    \/ \E s \in Sessions : Quiet /\ studentJobs(s)
    \/ \E s \in Sessions : Quiet /\ studentDashboard(s)
    \/ \E s \in Sessions, j \in 1..(jobSeq + 1) : Quiet /\ studentJobDetails(s, j)
    \/ Tick

SpecView == Init /\ [][NextView]_vars

\* one browser used in turn by the student and two companies; each
\* company edits and deletes Jobs, its own and the other's
NextOwner ==
    \/ \E u \in {"s1", "c1", "c2"} : Quiet /\ loginUser("x1", EmailOf(u), "pw1", RoleOf(u), "")
    \/ Quiet /\ session["x1"].user.resume = 0 /\ uploadResume("x1", "pdf")
    \/ Quiet /\ postJob("x1", MaxTime)
    \/ \E j \in 1..jobSeq : Quiet /\ applyArrive("x1", j)
    \/ \E r \in ReqIds : applyCheck(r)
    \/ \E r \in ReqIds : applySave(r)
    \/ \E j \in 1..(jobSeq + 1) : Quiet /\ companyEditJob("x1", j, 0, "closed")
    \/ \E j \in 1..(jobSeq + 1) : Quiet /\ companyDeleteArrive("x1", j)
    \/ \E r \in ReqIds : companyDeleteApps(r)
    \/ \E r \in ReqIds : companyDeleteJob(r)

SpecOwner == Init /\ [][NextOwner]_vars

\* a student's and a company's browser (x1) and the admin's (x2): logins
\* with and without the admin key, registration, the routes that reload
\* session.user from the store, impersonation, and the admin editing roles
NextElevate ==
    \/ \E u \in {"s1", "c1"} : Quiet /\ loginUser("x1", EmailOf(u), "pw1", RoleOf(u), "")
    \/ \E k \in {"", ADMIN_KEY} : Quiet /\ loginUser("x1", "n1@x", "pw1", "admin", k)
    \/ Quiet /\ loginUser("x2", EmailOf("a1"), "pw1", "admin", ADMIN_KEY)
    \/ \E s \in Sessions : Quiet /\ logoutUser(s)
    \/ Quiet /\ userSeq = 0 /\ registerUser("x1", [email |-> "n1@x", password |-> "pw1", role |-> "admin"])
    \/ \E r \in ReqIds : registerSave(r)
    \/ Quiet /\ studentProfile("x1")
    \/ Quiet /\ companyProfile("x1")
    \/ Quiet /\ session["x1"].user.resume = 0 /\ uploadResume("x1", "pdf")
    \/ \E u \in {"s1", "c1"} : \E role \in {RoleOf(u), "admin"} :
          Quiet /\ editUser("x2", u, [email |-> EmailOf(u), role |-> role, status |-> ""])
    \/ Quiet /\ impersonate("x2", "s1")
    \/ Quiet /\ stopImpersonate("x2")

SpecElevate == Init /\ [][NextElevate]_vars

\* a student's or a company's browser (x1) keeps its session while the
\* admin (x2) deletes the User, toggles its status and changes its role
NextStale ==
    \/ \E u \in {"s1", "c1"} : Quiet /\ loginUser("x1", EmailOf(u), "pw1", RoleOf(u), "")
    \/ Quiet /\ loginUser("x2", EmailOf("a1"), "pw1", "admin", ADMIN_KEY)
    \/ Quiet /\ logoutUser("x1")
    \/ \E u \in {"s1", "c1"}, q \in {"", "student"} : Quiet /\ deleteUser("x2", u, q)
    \/ \E u \in {"s1", "c1"} : Quiet /\ toggleStatus("x2", u)
    \/ \E u \in {"s1", "c1"}, role \in {"student", "company"} :
          Quiet /\ editUser("x2", u, [email |-> EmailOf(u), role |-> role, status |-> ""])
    \/ \E s \in Sessions : Quiet /\ studentJobs(s)
    \/ Quiet /\ studentProfile("x1")
    \/ Quiet /\ session["x1"].user.resume = 0 /\ uploadResume("x1", "pdf")
    \/ \E s \in Sessions : Quiet /\ jobs = << >> /\ postJob(s, MaxTime)
    \/ Quiet /\ companyProfile("x1")

SpecStale == Init /\ [][NextStale]_vars

\* ------------------------------------------------------------- claims
\* the role whose gate is mounted in front of a route ("none": no gate)
RouteRole(route) ==
    CASE route \in {"apply", "resume", "student_profile", "student_jobs", "student_dashboard",
                    "student_job"} -> "student"
      [] route \in {"post_job", "company_edit_job", "company_delete_job", "update_status",
                     "schedule_interview", "company_profile"} -> "company"
      [] route \in {"delete_user", "admin_delete_job", "admin_edit_job", "impersonate", "impersonate_stop",
                     "toggle_status"} -> "admin"
      [] OTHER -> "none"

\* the step is the arrival of a request at a role-scoped route
GatedArrival == last'.arrive /\ RouteRole(last'.route) # "none"

\* C3: when DELETE /admin/users/:id for a company User U answers with
\* success, no Job of U and no Application for a Job U owned remains,
\* whatever the other request parameters are.
C3_CompanyDeleteCascades ==
    [][(/\ last'.route = "delete_user"
        /\ last'.status = 200
        /\ last'.user \in DOMAIN users
        /\ users[last'.user].role = "company")
       => /\ \A j \in DOMAIN jobs' : jobs'[j].companyId # last'.user
          /\ \A a \in DOMAIN apps' :
                ~(apps'[a].jobId \in DOMAIN jobs /\ jobs[apps'[a].jobId].companyId = last'.user)]_vars

\* C4: a stop-impersonation request on a session that is impersonating
\* puts the saved admin identity back into session.user and removes
\* session.adminOriginal, whatever the role of the impersonated User.
C4_StopRestoresAdmin ==
    [][(/\ last'.route = "impersonate_stop"
        /\ last'.arrive
        /\ session[last'.sess].adminOriginal.role = "admin")
       => /\ session'[last'.sess].user = session[last'.sess].adminOriginal
          /\ session'[last'.sess].adminOriginal = NoDoc]_vars

\* C5: the gate of a role-scoped route sends a session without a user to
\* the login (redirect or 401), answers 403 to a user of another role and
\* lets the route's own role through.
C5_GateDecisionRule ==
    [][GatedArrival =>
         LET user == session[last'.sess].user
         IN  /\ user = NoDoc => last'.gate \in {"redirect", "401"}
             /\ (user # NoDoc /\ user.role # RouteRole(last'.route)) => last'.gate = "403"
             /\ user.role = RouteRole(last'.route) => last'.gate = "next"]_vars

\* C6: a request to a role-scoped route from a session whose user does not
\* have the route's role (or that has no user) changes neither the User,
\* Job and Application collections nor the session, and starts no handler.
C6_DeniedRequestChangesNothing ==
    [][(GatedArrival /\ session[last'.sess].user.role # RouteRole(last'.route))
       => UNCHANGED <<users, jobs, apps, session, req>>]_vars

\* a user of another role has just been turned away from a route, with
\* Jobs in the store
C6_Witness ==
    /\ last.arrive
    /\ last.status = 403
    /\ session[last.sess].user # NoDoc
    /\ RouteRole(last.route) \notin {"none", session[last.sess].user.role}
    /\ jobs # << >>

\* C1: no two Application documents have the same (studentId, jobId),
\* also while several apply requests of one student are in flight.
C1_AtMostOneApplication ==
    \A a, b \in DOMAIN apps :
        (apps[a].studentId = apps[b].studentId /\ apps[a].jobId = apps[b].jobId) => a = b

\* C2: once a delete of Job J has answered with success, no Application
\* with jobId = J is in the store, whatever requests it interleaved with.
C2_JobDeleteCascadeComplete ==
    \A j \in deleted : \A a \in DOMAIN apps : apps[a].jobId # j

\* the step is the status handler answering a company that does not own
\* the Job of an existing Application
NonOwnerStatusUpdate ==
    /\ last'.route = "update_status"
    /\ session[last'.sess].user.role = "company"
    /\ last'.app \in DOMAIN apps
    /\ apps[last'.app].jobId \in DOMAIN jobs
    /\ jobs[apps[last'.app].jobId].companyId # session[last'.sess].user.id

PastDeadlineCheck ==
    /\ last'.route = "apply"
    /\ ~last'.arrive
    /\ last'.req # 0
    /\ req[last'.req].pc = "apply_findOne"
    /\ req[last'.req].job # NoJob
    /\ req[last'.req].job.deadline < now

\* C8 as claimed: apply to a Job whose deadline has passed fails with
\* DeadlinePassed and creates no Application, active or closed.
C8_PastDeadlineIsDeadlinePassed ==
    [][PastDeadlineCheck =>
         /\ last'.status = 400
         /\ last'.error = "Application deadline has passed"
         /\ apps' = apps
         /\ req'[last'.req] = Idle]_vars

\* C8 as the code has it: such an apply creates no Application and ends
\* there; it is answered DeadlinePassed when the Job read is active and
\* 404 "Job not found or no longer active" when it is closed.
C8_PastDeadlineCreatesNoApplication ==
    [][PastDeadlineCheck =>
         /\ apps' = apps
         /\ req'[last'.req] = Idle
         /\ IF req[last'.req].job.status = "active"
            THEN last'.status = 400 /\ last'.error = "Application deadline has passed"
            ELSE last'.status = 404 /\ last'.error = "Job not found or no longer active"]_vars

\* an apply to an active Job whose deadline has passed has just been refused
C8_Witness ==
    /\ last.route = "apply"
    /\ last.status = 400
    /\ last.error = "Application deadline has passed"
    /\ last.job \in DOMAIN jobs
    /\ jobs[last.job].status = "active"
    /\ jobs[last.job].deadline < now

\* C9: an apply by a student whose resume is empty, in the session or in
\* the stored profile, is answered ResumeRequired, creates no Application
\* and goes no further, for every job.
C9_NoResumeNoApplication ==
    [][(/\ last'.route = "apply"
        /\ last'.arrive
        /\ session[last'.sess].user.role = "student"
        /\ \/ session[last'.sess].user.resume = 0
           \/ /\ session[last'.sess].user.id \in DOMAIN users
              /\ users[session[last'.sess].user.id].resume = 0)
       => /\ last'.status = 400
          /\ last'.error = "Please upload your resume before applying"
          /\ apps' = apps
          /\ req' = req]_vars

\* a student without a resume has just been refused on an open Job
C9_Witness ==
    /\ last.route = "apply"
    /\ last.arrive
    /\ last.status = 400
    /\ session[last.sess].user.role = "student"
    /\ session[last.sess].user.resume = 0
    /\ last.job \in DOMAIN jobs
    /\ jobs[last.job].status = "active"
    /\ ~deadlinePassed(jobs[last.job])

\* C10: a successful apply adds exactly one Application, for the student
\* and the Job of the request, with the Job's companyId, status pending and
\* the resume the student's profile held when the request arrived; no
\* later step changes the resume of an Application.
C10_ApplySnapshotsProfileResume ==
    [][/\ (last'.route = "apply" /\ last'.status = 200) =>
             LET a == last'.app
                 q == req[last'.req]
             IN  /\ a \notin DOMAIN apps
                 /\ DOMAIN apps' = DOMAIN apps \cup {a}
                 /\ apps'[a].studentId = q.user.id
                 /\ apps'[a].jobId = q.jobId
                 /\ apps'[a].companyId = q.job.companyId
                 /\ apps'[a].status = "pending"
                 /\ apps'[a].resume = q.profile
       /\ \A a \in DOMAIN apps \cap DOMAIN apps' : apps'[a].resume = apps[a].resume]_vars
\* the step is the final answer to an apply request of a student who
\* already has an Application for the Job of the request
ApplyAgain ==
    /\ last'.route = "apply"
    /\ last'.status # 0
    /\ LET user == IF last'.arrive THEN session[last'.sess].user ELSE req[last'.req].user
       IN  /\ user.role = "student"
           /\ \E a \in DOMAIN apps : apps[a].studentId = user.id /\ apps[a].jobId = last'.job

\* C11 as claimed: once a student has applied to a Job, every later apply
\* of that student to that Job is answered DuplicateApplication and leaves
\* the Applications as they are.
C11_LaterApplyIsDuplicate ==
    [][ApplyAgain =>
         /\ last'.status = 400
         /\ last'.error = "You have already applied to this job"
         /\ apps' = apps]_vars

\* C11 as the code has it: such an apply never changes the Applications; it
\* is answered DuplicateApplication when it gets as far as the lookup, and
\* otherwise with the error of the earlier check that stopped it (resume
\* missing from the session, Job closed or gone, deadline passed).
C11_LaterApplyCreatesNothing ==
    [][ApplyAgain =>
         /\ apps' = apps
         /\ IF last'.arrive
            THEN /\ ~hasResume(session[last'.sess].user)
                 /\ last'.error = "Please upload your resume before applying"
            ELSE LET q == req[last'.req]
                 IN  IF q.pc = "apply_save"
                     THEN last'.status = 400 /\ last'.error = "You have already applied to this job"
                     ELSE IF q.job = NoJob \/ q.job.status # "active"
                     THEN last'.status = 404 /\ last'.error = "Job not found or no longer active"
                     ELSE /\ q.job.deadline < now
                          /\ last'.status = 400
                          /\ last'.error = "Application deadline has passed"]_vars

\* a second apply of a student to a Job has just been answered
\* DuplicateApplication, with the first Application still the only one
C11_Witness ==
    /\ last.route = "apply"
    /\ last.error = "You have already applied to this job"
    /\ Cardinality({a \in DOMAIN apps : apps[a].jobId = last.job}) = 1
\* C12: a login with role admin whose admin key is missing or is not the
\* configured key is answered InvalidAdminKey, queries no User and leaves
\* the session as it was, whatever email and password it carries.
C12_BadAdminKeyStopsLogin ==
    [][(/\ last'.route = "login"
        /\ last'.body.role = "admin"
        /\ last'.body.adminKey # ADMIN_KEY)
       => /\ last'.error = "Invalid admin key. Access denied."
          /\ ~last'.lookup
          /\ session' = session
          /\ users' = users]_vars

\* a login with the email and password of an existing admin and a wrong
\* key has just been refused, the session still without a user
C12_Witness ==
    /\ last.route = "login"
    /\ last.error = "Invalid admin key. Access denied."
    /\ last.body.adminKey = "guess"
    /\ \E u \in DOMAIN users :
          /\ users[u].email = last.body.email
          /\ users[u].role = "admin"
          /\ comparePassword(users[u], last.body.password)
    /\ session[last.sess].user = NoDoc

\* the Users a login body matches in email, role and password
Matching(body) ==
    {u \in DOMAIN users : /\ users[u].email = body.email
                          /\ users[u].role = body.role
                          /\ comparePassword(users[u], body.password)}

\* C13: a login puts a User into the session only when that User has the
\* email and the role of the request and the password verifies against its
\* hash; a login that carries a password and matches no User that way
\* (unknown email, wrong password or other role) is answered
\* "Invalid credentials" in each case and leaves the session as it was.
C13_LoginOnlyOnFullMatch ==
    [][last'.route = "login" =>
         LET b == last'.body
             s == last'.sess
         IN  /\ last'.status = 302 =>
                   /\ last'.user \in Matching(b)
                   /\ session'[s].user = toObject(last'.user)
             /\ last'.status # 302 => session' = session
             /\ (/\ b.password # NoPassword
                 /\ Matching(b) = {}
                 /\ b.role = "admin" => b.adminKey = ADMIN_KEY)
                => /\ last'.status = 200
                   /\ last'.error = "Invalid credentials"
                   /\ session'[s].user = session[s].user]_vars

\* a login with the email and the password of a User but another role has
\* just been answered "Invalid credentials"
C13_Witness ==
    /\ last.route = "login"
    /\ last.error = "Invalid credentials"
    /\ session[last.sess].user = NoDoc
    /\ \E u \in DOMAIN users :
          /\ users[u].email = last.body.email
          /\ comparePassword(users[u], last.body.password)
          /\ users[u].role # last.body.role
\* C14: no two User documents have the same email, with register, add-user
\* and edit-user requests overlapping; and a registration whose email is
\* the email of a User when it is saved creates no User, for every role.
C14_EmailUnique ==
    /\ [](\A u, v \in DOMAIN users : users[u].email = users[v].email => u = v)
    /\ [][(/\ last'.route = "register"
           /\ ~last'.arrive
           /\ findByEmail(req[last'.req].body.email) # {})
          => users' = users]_vars

\* a registration that found its email free has just been refused by the
\* unique index, because an overlapping request took the email first
C14_Witness ==
    /\ last.route = "register"
    /\ last.error = "Registration failed"
    /\ \E u \in DOMAIN users : u \notin UserIds \/ users[u].email # EmailOf(u)
\* C15: a forgot-password request stores the hash of its token with an
\* expiry one hour ahead; a reset request changes a User only if that User
\* holds the hash of the request's token with an expiry later than now, and
\* then sets the hash of the new password and clears both token fields in
\* the same write, so that no User holds that token afterwards; a request
\* whose token no User holds unexpired is answered InvalidOrExpiredToken
\* and changes nothing.
C15_ResetNeedsLiveToken ==
    [][/\ (last'.route = "forgot_password" /\ last'.user # "none") =>
             /\ users'[last'.user].resetToken = sha256(last'.token)
             /\ users'[last'.user].resetTokenExpiry = now + ResetTTL
             /\ users'[last'.user].password = users[last'.user].password
       /\ last'.route = "reset_password" =>
             LET t == last'.token
                 live == {u \in DOMAIN users : /\ users[u].resetToken = sha256(t)
                                               /\ users[u].resetTokenExpiry > now}
             IN  /\ DOMAIN users' = DOMAIN users
                 /\ \A u \in DOMAIN users :
                       users'[u] # users[u] =>
                          /\ u \in live
                          /\ users'[u] = [users[u] EXCEPT !.password = bcryptHash(last'.body.newPassword),
                                                          !.resetToken = NoToken,
                                                          !.resetTokenExpiry = 0]
                 /\ live = {} => users' = users /\ last'.error # ""
                 /\ (live = {} /\ last'.lookup) => last'.error = "Invalid or expired reset link"
                 /\ last'.error = "" =>
                       /\ users' # users
                       /\ \A v \in DOMAIN users' : users'[v].resetToken # sha256(t)]_vars

\* the only token ever mailed has just been refused, before its hour was
\* over: it had been used for a reset already
C15_Witness ==
    /\ last.route = "reset_password"
    /\ last.error = "Invalid or expired reset link"
    /\ last.token = 1
    /\ tokSeq = 1
    /\ now = 0
    /\ \E u \in DOMAIN users : users[u].password = bcryptHash("pw2")

\* C16: a change-password request replaces the stored password of the
\* session's User only when the current password it carries verifies
\* against the stored hash; when it does not, the request is answered
\* IncorrectCurrentCredential and the stored password stays.
C16_ChangeNeedsCurrentPassword ==
    [][last'.route = "change_password" =>
         LET u == session[last'.sess].user.id
             b == last'.body
         IN  /\ users' # users =>
                   /\ u \in DOMAIN users
                   /\ users[u].password = bcryptHash(b.password)
                   /\ users' = [users EXCEPT ![u].password = bcryptHash(b.newPassword)]
             /\ (/\ last'.lookup
                 /\ u \in DOMAIN users
                 /\ users[u].password # bcryptHash(b.password))
                => /\ last'.status = 400
                   /\ last'.error = "Current password is incorrect"
                   /\ users' = users]_vars

\* a change-password request with a wrong current password has just been
\* refused, the stored password being the one the account started with
C16_Witness ==
    /\ last.route = "change_password"
    /\ last.error = "Current password is incorrect"
    /\ last.user \in DOMAIN users
    /\ users[last.user].password = bcryptHash("pw1")
    /\ last.body.password = "pw2"

\* C17: the password field of every User document is a bcrypt hash, never
\* the text a request carried, after any sequence of registrations, added
\* users, resets, password changes, profile updates and admin edits.
C17_PasswordsAreHashes ==
    \A u \in DOMAIN users : users[u].password.kind = "bcrypt"

\* a registered account and an account whose password was replaced are in
\* the store
C17_Witness ==
    /\ userSeq >= 1
    /\ \E u \in UserIds \cap DOMAIN users : users[u].password = bcryptHash("pw2")
    /\ \E u \in DOMAIN users \ UserIds : users[u].password = bcryptHash("pw2")
\* C18: an impersonation started on a session that already holds a saved
\* identity puts the identity being impersonated into session.adminOriginal;
\* when the saved admin is neither that identity nor the new target, the
\* admin is then in neither slot of the session, and a stop-impersonation
\* request, which can only put back what adminOriginal holds, does not
\* bring it back.
C18_SecondImpersonationLosesAdmin ==
    [][/\ (/\ last'.route = "impersonate"
           /\ last'.status = 302
           /\ session[last'.sess].adminOriginal # NoDoc) =>
             LET old == session[last'.sess]
                 new == session'[last'.sess]
             IN  /\ new.adminOriginal = old.user
                 /\ new.user.id = last'.user
                 /\ old.adminOriginal.id \notin {old.user.id, last'.user} =>
                       old.adminOriginal.id \notin {new.user.id, new.adminOriginal.id}
       /\ last'.route = "impersonate_stop" =>
             /\ session'[last'.sess].user \in {session[last'.sess].user, session[last'.sess].adminOriginal}
             /\ session'[last'.sess].adminOriginal \in {session[last'.sess].adminOriginal, NoDoc}]_vars

\* the admin impersonated a second admin and then a student: the session
\* holds the student and the second admin, and a stop request has just
\* left it that way
C18_Witness ==
    /\ last.route = "impersonate_stop"
    /\ session[last.sess].user.id = "s1"
    /\ session[last.sess].adminOriginal.id = "n1"
\* the step is the death of a Job delete handler between its two store
\* steps, Application.deleteMany done and Job.findByIdAndDelete not yet
CrashBetween ==
    /\ last'.route = "crash"
    /\ last'.from \in {"cdel_job", "adel_job"}

\* C19 as claimed: when a Job delete dies between its two store steps the
\* Job is already gone, so that Applications naming it are left without
\* their Job.
C19_CrashLeavesJobDeleted ==
    [][(CrashBetween /\ last'.job \in DOMAIN jobs) => last'.job \notin DOMAIN jobs']_vars

\* C19 as the code has it: the delete is two store steps, the Applications
\* of the Job first and the Job second; a handler that dies between them
\* leaves the Job in the store and no Application naming it, and with
\* requests served one at a time no Application ever names a missing Job.
C19_CrashLeavesJobWithoutApplications ==
    /\ [](\A a \in DOMAIN apps : apps[a].jobId \in DOMAIN jobs)
    /\ [][/\ CrashBetween =>
                /\ jobs' = jobs
                /\ apps' = apps
                /\ \A a \in DOMAIN apps' : apps'[a].jobId # last'.job
          /\ (last'.route \in {"company_delete_job", "admin_delete_job"} /\ last'.status = 0) =>
                jobs' = jobs
          /\ (last'.route \in {"company_delete_job", "admin_delete_job"} /\ last'.status = 200) =>
                apps' = apps /\ last'.job \notin DOMAIN jobs']_vars

\* a delete of a Job a student had applied to has just died between its
\* steps: the Application is gone and the Job is still in the store
C19_Witness ==
    /\ last.route = "crash"
    /\ last.from \in {"cdel_job", "adel_job"}
    /\ last.job \in DOMAIN jobs
    /\ appSeq >= 1
    /\ apps = << >>
\* the step is the status handler answering the company that owns the Job
\* of an existing Application
OwnerStatusUpdate ==
    /\ last'.route = "update_status"
    /\ session[last'.sess].user.role = "company"
    /\ last'.app \in DOMAIN apps
    /\ apps[last'.app].jobId \in DOMAIN jobs
    /\ jobs[apps[last'.app].jobId].companyId = session[last'.sess].user.id

\* C20: a status update by the owning company with a new status among
\* pending, shortlisted, rejected and hired (and interview fields that are
\* valid or absent) succeeds whatever the current status is, hired
\* included, and stores the new status; and the status of every
\* Application is one of the four values in every state.
C20_AnyStatusTransition ==
    /\ [](\A a \in DOMAIN apps : apps[a].status \in {"pending", "shortlisted", "rejected", "hired"})
    /\ [][(/\ OwnerStatusUpdate
           /\ last'.body.status \in {"pending", "shortlisted", "rejected", "hired"}
           /\ last'.body.interviewDate >= 0
           /\ last'.body.interviewMode \in {"", "Online", "Offline"})
          => /\ last'.status = 200
             /\ last'.from = apps[last'.app].status
             /\ apps'[last'.app].status = last'.body.status
             /\ DOMAIN apps' = DOMAIN apps]_vars

\* the owning company has just set a hired Application back to pending
C20_Witness ==
    /\ last.route = "update_status"
    /\ last.status = 200
    /\ last.from = "hired"
    /\ last.app \in DOMAIN apps
    /\ apps[last.app].status = "pending"
InterviewFields == {"interviewDate", "interviewMode", "interviewLocation", "interviewLink"}

\* the value a body gives a field is "not supplied" (the handler's `if`)
Supplied(body, f) == IF f = "interviewDate" THEN body[f] # 0 ELSE body[f] # ""

\* the step is the schedule-interview handler answering about an
\* Application that exists and whose Job exists
ScheduleStep ==
    /\ last'.route = "schedule_interview"
    /\ last'.app \in DOMAIN apps
    /\ apps[last'.app].jobId \in DOMAIN jobs

\* C22: a schedule-interview request never changes the status of an
\* Application, another Application, or an interview field it does not
\* supply; issued by the company that owns the Job with values the schema
\* takes, it succeeds and sets every supplied field to the supplied value;
\* issued by a session that is not the owning company it changes nothing.
C22_ScheduleChangesSuppliedFields ==
    [][last'.route = "schedule_interview" =>
         /\ DOMAIN apps' = DOMAIN apps
         /\ \A a \in DOMAIN apps :
               /\ apps'[a].status = apps[a].status
               /\ a # last'.app => apps'[a] = apps[a]
               /\ \A f \in InterviewFields :
                     ~Supplied(last'.body, f) => apps'[a][f] = apps[a][f]
         /\ (/\ ScheduleStep
             /\ session[last'.sess].user.role = "company"
             /\ jobs[apps[last'.app].jobId].companyId = session[last'.sess].user.id
             /\ last'.body.interviewDate >= 0
             /\ last'.body.interviewMode \in {"", "Online", "Offline"})
            => /\ last'.status = 200
               /\ \A f \in InterviewFields :
                     Supplied(last'.body, f) => apps'[last'.app][f] = last'.body[f]
         /\ (/\ ScheduleStep
             /\ \/ session[last'.sess].user.role # "company"
                \/ jobs[apps[last'.app].jobId].companyId # session[last'.sess].user.id)
            => /\ last'.status \in {403, 404}
               /\ apps' = apps]_vars

\* the owning company has just rescheduled a shortlisted Application,
\* supplying a date and a link only: mode and location are the earlier ones
C22_Witness ==
    /\ last.route = "schedule_interview"
    /\ last.status = 200
    /\ last.body.interviewDate = 2
    /\ last.body.interviewMode = ""
    /\ last.body.interviewLocation = ""
    /\ last.body.interviewLink = "url"
    /\ last.app \in DOMAIN apps
    /\ apps[last.app].status = "shortlisted"
    /\ apps[last.app].interviewDate = 2
    /\ apps[last.app].interviewMode = "Offline"
    /\ apps[last.app].interviewLocation = "room"
\* C23: every Job that the student job listing, the recent jobs of the
\* student dashboard or the single-job details view shows has status
\* active and a deadline later than now.
C23_ShownJobsAreOpen ==
    [][last'.route \in {"student_jobs", "student_dashboard", "student_job"} =>
         \A j \in last'.shown :
            /\ j \in DOMAIN jobs
            /\ jobs[j].status = "active"
            /\ jobs[j].deadline > now]_vars
\* C24: when DELETE /admin/users/:id for a student User S answers with
\* success, no Application with studentId = S remains, whatever the other
\* request parameters are; hence, with no handler suspended, the studentId
\* of every Application is the _id of a User in the store.
C24_StudentDeleteCascades ==
    /\ [][(/\ last'.route = "delete_user"
           /\ last'.status = 200
           /\ last'.user \in DOMAIN users
           /\ users[last'.user].role = "student")
          => \A a \in DOMAIN apps' : apps'[a].studentId # last'.user]_vars
    /\ [](Quiet => \A a \in DOMAIN apps : apps[a].studentId \in DOMAIN users)
\* the session user on whose behalf a step runs: the one of the request's
\* session on arrival, the one the handler read on arrival afterwards
Actor == IF last'.arrive THEN session[last'.sess].user ELSE req[last'.req].user

\* C25: a step of the company-side job edit or job delete changes no Job
\* whose companyId is not the id of the session's company and no
\* Application for such a Job, and changes the companyId of no Job; the
\* request for a Job of another company is answered 404 "Job not found".
C25_CompanyJobScope ==
    [][(last'.route \in {"company_edit_job", "company_delete_job"} /\ Actor.role = "company") =>
         /\ \A j \in DOMAIN jobs :
               /\ jobs[j].companyId # Actor.id => (j \in DOMAIN jobs' /\ jobs'[j] = jobs[j])
               /\ j \in DOMAIN jobs' => jobs'[j].companyId = jobs[j].companyId
         /\ DOMAIN jobs' \subseteq DOMAIN jobs
         /\ \A a \in DOMAIN apps :
               (apps[a].jobId \in DOMAIN jobs /\ jobs[apps[a].jobId].companyId # Actor.id)
                  => (a \in DOMAIN apps' /\ apps'[a] = apps[a])
         /\ (/\ last'.job \in DOMAIN jobs
             /\ jobs[last'.job].companyId # Actor.id
             /\ last'.status # 0)
            => /\ last'.status = 404
               /\ last'.error = "Job not found"
               /\ jobs' = jobs
               /\ apps' = apps]_vars

\* a company has just been answered 404 for the delete of another
\* company's Job, which is still in the store with its Application
C25_Witness ==
    /\ last.route = "company_delete_job"
    /\ last.status = 404
    /\ session[last.sess].user.role = "company"
    /\ last.job \in DOMAIN jobs
    /\ jobs[last.job].companyId \notin {"none", session[last.sess].user.id}
    /\ \E a \in DOMAIN apps : apps[a].jobId = last.job
\* C27: every Application whose Job is in the store has the companyId of
\* that Job, so that the ownership test of the status and interview
\* handlers (the Job's companyId) and the company's application listing
\* (the Application's companyId) name the same company.
C27_ApplicationCompanyIsJobCompany ==
    \A a \in DOMAIN apps :
        apps[a].jobId \in DOMAIN jobs => apps[a].companyId = jobs[apps[a].jobId].companyId
\* C26: a session whose session.user has role admin is one in which a
\* login with the correct admin key succeeded (impersonation starts from
\* such a session and stays in it); registration, logins without the key,
\* profile updates and the other routes that reload session.user put no
\* admin into a session that never presented the key.
C26_AdminSessionPresentedKey ==
    \A s \in Sessions : session[s].user.role = "admin" => s \in keyed
\* the User of a session is no longer what the session recorded: it has
\* been deleted, made inactive or given another role
Stale(sess) ==
    \/ sess.user.id \notin DOMAIN users
    \/ users[sess.user.id].status # "active"
    \/ users[sess.user.id].role # sess.user.role

\* C28: the gate of a role-scoped route lets a request through exactly
\* when the role in the session's session.user is the route's role; so a
\* session opened by a User that an admin has since deleted, made inactive
\* or given another role still passes the gate of the role it recorded.
C28_GateReadsSessionRoleOnly ==
    [][GatedArrival =>
         LET sess == session[last'.sess]
         IN  /\ last'.gate = "next" <=> sess.user.role = RouteRole(last'.route)
             /\ (sess.user.role = RouteRole(last'.route) /\ sess.user # NoDoc /\ Stale(sess))
                   => (last'.gate = "next" /\ last'.status # 403)]_vars

\* a session opened by a student has just passed the student gate although
\* the admin has made that User inactive and a company since
C28_Witness ==
    /\ last.arrive
    /\ last.gate = "next"
    /\ RouteRole(last.route) = "student"
    /\ session[last.sess].user.role = "student"
    /\ session[last.sess].user.id \in DOMAIN users
    /\ users[session[last.sess].user.id].status = "inactive"
    /\ users[session[last.sess].user.id].role = "company"
\* C29: the identity in session.adminOriginal, when there is one, has role
\* admin; the slot is filled only by a successful impersonate request on
\* that session and emptied only by stop-impersonation or by the logout
\* that destroys the session, and no other request changes it.
C29_AdminOriginalIsAdmin ==
    /\ [](\A s \in Sessions :
             session[s].adminOriginal # NoDoc => session[s].adminOriginal.role = "admin")
    /\ [][\A s \in Sessions :
             LET old == session[s].adminOriginal
                 new == session'[s].adminOriginal
             IN  /\ (old = NoDoc /\ new # NoDoc) =>
                       (last'.route = "impersonate" /\ last'.sess = s /\ last'.status = 302)
                 /\ (old # NoDoc /\ new = NoDoc) =>
                       (last'.route \in {"impersonate_stop", "logout"} /\ last'.sess = s)
                 /\ new # old =>
                       (last'.route \in {"impersonate", "impersonate_stop", "logout"} /\ last'.sess = s)]_vars

\* the admin has just started to impersonate a student: the session holds
\* the student as its user and the admin in adminOriginal
C29_Witness ==
    /\ last.route = "impersonate"
    /\ last.status = 302
    /\ session[last.sess].user.role = "student"
    /\ session[last.sess].adminOriginal.role = "admin"
    /\ session[last.sess].adminOriginal.id = "a1"
\* C30: a forgot-password request for the email of a User replaces the
\* stored token hash and expiry of that User with those of a token never
\* issued before, whether or not the mail is then sent, so that the User
\* holds the hash of no earlier token; and a reset request with a token
\* whose hash no User holds is answered InvalidOrExpiredToken and changes
\* nothing.
C30_NewTokenReplacesOld ==
    [][/\ (last'.route = "forgot_password" /\ last'.user # "none") =>
             LET u == last'.user
             IN  /\ last'.token \notin 1..tokSeq
                 /\ users'[u].resetToken = [alg |-> "sha256", of |-> last'.token]
                 /\ users'[u].resetTokenExpiry = now + ResetTTL
                 /\ \A t \in 1..tokSeq : users'[u].resetToken.of # t
                 /\ \A v \in DOMAIN users \ {u} : users'[v] = users[v]
                 /\ last'.error \in {"", "Error sending reset email. Please try again."}
       /\ (/\ last'.route = "reset_password"
           /\ last'.lookup
           /\ \A u \in DOMAIN users : users[u].resetToken.of # last'.token)
          => /\ last'.error = "Invalid or expired reset link"
             /\ users' = users]_vars

\* two tokens have been issued and none has expired or been used, and the
\* first has just been refused: the second request replaced it
C30_Witness ==
    /\ last.route = "reset_password"
    /\ last.error = "Invalid or expired reset link"
    /\ last.token = 1
    /\ tokSeq = 2
    /\ now = 0
    /\ \A u \in DOMAIN users : users[u].password = bcryptHash("pw1")
    /\ \E u \in DOMAIN users : users[u].resetToken = sha256(2)
====
